---- MODULE Spec2Model ----
(***************************************************************************)
(* Model of the pure numeric utilities of the repository:                  *)
(*   cigarette_butt_segmentation/lib/utils.py    encode_rle, decode_rle    *)
(*   cigarette_butt_segmentation/lib/metrics.py  dice, get_dice            *)
(*   trajectory_prediction/lib/preprocess.py     extend_arr                *)
(* A numpy array is a sequence (1d) or a sequence of rows (2d); a Python   *)
(* str is a sequence of one-character strings; a call that raises returns  *)
(* a record whose exc field names the exception.                           *)
(***************************************************************************)
EXTENDS Integers, Sequences, FiniteSets, TLC

VARIABLES caller, pc, exc,
          mask, shape, rle_mask, img, rle_again,
          true, pred, score,
          t, arr, t_inter, t_min, t_max, extended_t, extended_values,
          trajectory_true, trajectory_pred, synchronized, straight_x, straight_y, error,
          min_values, max_values, max_num, ticks

codec_vars == <<mask, shape, rle_mask, img, rle_again>>
dice_vars == <<true, pred, score>>
interp_vars == <<t, arr, t_inter, t_min, t_max, extended_t, extended_values>>
traj_vars == <<trajectory_true, trajectory_pred, synchronized, straight_x, straight_y, error>>
ticks_vars == <<min_values, max_values, max_num, ticks>>
vars == <<caller, pc, exc, codec_vars, dice_vars, interp_vars, traj_vars, ticks_vars>>

\* ---------------------------------------------------------------- bounds
MaxH == 2
MaxW == 3
MaxTokens == 5
MaxPix == 3
MaxList == 3
MaxSamples == 2
MaxT == 3
MaxTargets == 2
MaxTime == 2
MaxPred == 2
MaxSync == 2
MaxValue == 8
MaxNum == 3

\* Foreground values a two-valued mask may use (docstrings: 1 or 255).
FgValues == {1, 255}
\* Tokens the RLE strings handed to decode_rle are built from.
TokenSet == {<<"0">>, <<"1">>, <<"2">>, <<"0", "3">>, <<"x">>}

\* ------------------------------------------------------- generic helpers
\* The sequence f[1], ..., f[n] of a function f on 1..n, with its elements
\* evaluated once.
array(f) == f \o <<>>

Ok(v) == [exc |-> "", val |-> v]
Raise(e) == [exc |-> e, val |-> <<>>]

RECURSIVE SeqsUpTo(_, _)
SeqsUpTo(S, n) ==
    IF n = 0 THEN {<<>>}
    ELSE LET shorter == SeqsUpTo(S, n - 1)
         IN  shorter \cup {Append(s, x) : s \in {q \in shorter : Len(q) = n - 1}, x \in S}

Shapes == (1..MaxH) \X (1..MaxW)

\* ndarray.flatten(): row-major concatenation of the rows.
RECURSIVE flatten(_)
flatten(a) == IF a = <<>> THEN <<>> ELSE Head(a) \o flatten(Tail(a))

\* Faulty variant of reshape: column-major (Fortran) order.
reshape_colmajor(flat, shp) ==
    array([r \in 1..shp[1] |-> array([c \in 1..shp[2] |-> flat[(c - 1) * shp[1] + r]])])

\* ndarray.reshape(shape) of a flat array of shape[0]*shape[1] elements.
reshape(flat, shp) ==
    array([r \in 1..shp[1] |-> array([c \in 1..shp[2] |-> flat[(r - 1) * shp[2] + c]])])

shape_of(a) == <<Len(a), Len(a[1])>>

\* ------------------------------------------------ str / int conversions
Digits == <<"0", "1", "2", "3", "4", "5", "6", "7", "8", "9">>
Whitespace == {" "}

RECURSIVE str_nat(_)
str_nat(n) ==
    IF n < 10 THEN <<Digits[n + 1]>>
    ELSE str_nat(n \div 10) \o <<Digits[(n % 10) + 1]>>

\* str(x) of a Python / numpy integer.
str(x) == IF x < 0 THEN <<"-">> \o str_nat(0 - x) ELSE str_nat(x)

\* sep.join(parts)
RECURSIVE join(_, _)
join(sep, parts) ==
    IF parts = <<>> THEN <<>>
    ELSE IF Len(parts) = 1 THEN parts[1]
    ELSE parts[1] \o sep \o join(sep, Tail(parts))

\* str.split() without arguments: maximal runs of non-whitespace characters.
RECURSIVE split_acc(_, _)
split_acc(s, cur) ==
    IF s = <<>> THEN (IF cur = <<>> THEN <<>> ELSE <<cur>>)
    ELSE IF Head(s) \in Whitespace
         THEN (IF cur = <<>> THEN <<>> ELSE <<cur>>) \o split_acc(Tail(s), <<>>)
         ELSE split_acc(Tail(s), Append(cur, Head(s)))

split(s) == split_acc(s, <<>>)

IsDigit(c) == \E d \in 1..10 : Digits[d] = c
DigitVal(c) == (CHOOSE d \in 1..10 : Digits[d] = c) - 1

unsigned(tok) == IF tok # <<>> /\ Head(tok) \in {"+", "-"} THEN Tail(tok) ELSE tok

\* Whether int(tok) succeeds: an optional sign and at least one digit.
is_int(tok) == unsigned(tok) # <<>> /\ \A i \in 1..Len(unsigned(tok)) : IsDigit(unsigned(tok)[i])

RECURSIVE int_nat(_)
int_nat(ds) == IF ds = <<>> THEN 0 ELSE 10 * int_nat(SubSeq(ds, 1, Len(ds) - 1)) + DigitVal(ds[Len(ds)])

int(tok) == IF Head(tok) = "-" THEN 0 - int_nat(unsigned(tok)) ELSE int_nat(unsigned(tok))

\* np.asarray(list_of_str, dtype=int): ValueError on any token that is no integer.
asarray_int(toks) ==
    IF \A i \in 1..Len(toks) : is_int(toks[i])
    THEN Ok(array([i \in 1..Len(toks) |-> int(toks[i])]))
    ELSE Raise("ValueError")

\* xs[start:][::2] for a 0-based start.
every_other(xs, start) ==
    array([i \in 1..((Len(xs) - start + 1) \div 2) |-> xs[start + 2 * i - 1]])

\* ------------------------------------------------------------ encode_rle
\* Faulty variant of where_changes: pixels[1:] > pixels[:-1], rising edges only.
RECURSIVE where_rises(_, _)
where_rises(pixels, k) ==
    IF k >= Len(pixels) THEN <<>>
    ELSE (IF pixels[k + 1] > pixels[k] THEN <<k>> ELSE <<>>) \o where_rises(pixels, k + 1)

\* np.where(pixels[1:] != pixels[:-1])[0] + 1
RECURSIVE where_changes(_, _)
where_changes(pixels, k) ==
    IF k >= Len(pixels) THEN <<>>
    ELSE (IF pixels[k + 1] # pixels[k] THEN <<k>> ELSE <<>>) \o where_changes(pixels, k + 1)

\* Faulty variant of subtract_starts: the run ends are left as they are.
keep_ends(runs) == runs

\* runs[1::2] -= runs[::2]
subtract_starts(runs) ==
    array([i \in 1..Len(runs) |-> IF i % 2 = 0 THEN runs[i] - runs[i - 1] ELSE runs[i]])

encode_rle(m) ==
    LET pixels == <<0>> \o flatten(m) \o <<0>>
        runs0 == where_changes(pixels, 1)
        runs == subtract_starts(runs0)
    IN  IF Len(runs0) % 2 = 1 /\ Len(runs0) > 1
        THEN Raise("ValueError")
        ELSE Ok(join(<<" ">>, array([i \in 1..Len(runs) |-> str(runs[i])])))

\* ------------------------------------------------------------ decode_rle
\* numpy broadcasting of two 1d arrays under +.
broadcast_add(a, b) ==
    IF Len(a) = Len(b) THEN Ok(array([i \in 1..Len(a) |-> a[i] + b[i]]))
    ELSE IF Len(b) = 1 THEN Ok(array([i \in 1..Len(a) |-> a[i] + b[1]]))
    ELSE IF Len(a) = 1 THEN Ok(array([i \in 1..Len(b) |-> a[1] + b[i]]))
    ELSE Raise("ValueError")

\* Faulty variant of clamp: a bound past the end wraps around.
clamp_wrap(i, n) == IF n = 0 THEN 0 ELSE i % n

\* A slice bound of Python's a[low:high] on a sequence of n elements.
clamp(i, n) ==
    LET j == IF i < 0 THEN i + n ELSE i
    IN  IF j < 0 THEN 0 ELSE IF j > n THEN n ELSE j

\* Faulty variant of slice_assign: the upper bound is painted too.
slice_assign_inclusive(flat, low, high) ==
    LET n == Len(flat)
        lo == clamp(low, n)
        hi == clamp(high, n)
    IN  array([i \in 1..n |-> IF lo <= i - 1 /\ i - 1 <= hi THEN 255 ELSE flat[i]])

\* img[low:high] = 255 (0-based bounds) on a flat array.
slice_assign(flat, low, high) ==
    LET n == Len(flat)
        lo == clamp(low, n)
        hi == clamp(high, n)
    IN  array([i \in 1..n |-> IF lo <= i - 1 /\ i - 1 < hi THEN 255 ELSE flat[i]])

\* for low, high in zip(starts, ends): img[low:high] = 255
RECURSIVE paint(_, _, _, _)
paint(flat, starts, ends, k) ==
    IF k > Len(starts) \/ k > Len(ends) THEN flat
    ELSE paint(slice_assign(flat, starts[k], ends[k]), starts, ends, k + 1)

decode_rle(rle, shp) ==
    LET s == split(rle)
        starts0 == asarray_int(every_other(s, 0))
        lengths == asarray_int(every_other(s, 1))
    IN  IF starts0.exc # "" THEN starts0
        ELSE IF lengths.exc # "" THEN lengths
        ELSE LET starts == array([i \in 1..Len(starts0.val) |-> starts0.val[i] - 1])
                 ends == broadcast_add(starts, lengths.val)
                 zeros == array([i \in 1..(shp[1] * shp[2]) |-> 0])
             IN  IF ends.exc # "" THEN ends
                 ELSE Ok(reshape(paint(zeros, starts, ends.val, 1), shp))

\* ------------------------------------------------------------ real numbers
\* A float is modelled by the real number it approximates, held exactly as a
\* quotient num/den of two polynomials in EPS with integer coefficients
\* (<<c0, c1, c2>> is c0 + c1*EPS + c2*EPS^2), den being positive.  With
\* EPS = 1e-10 and coefficients below 2^31 a polynomial is zero exactly when all
\* its coefficients are, and has the sign of its lowest non-zero coefficient, so
\* equality and order of these quotients are those of the real numbers.
coef(p, i) == IF i <= Len(p) THEN p[i] ELSE 0

RECURSIVE PNorm(_)
PNorm(p) == IF p # <<>> /\ p[Len(p)] = 0 THEN PNorm(SubSeq(p, 1, Len(p) - 1)) ELSE p

PAdd(p, q) ==
    PNorm(array([i \in 1..(IF Len(p) > Len(q) THEN Len(p) ELSE Len(q)) |-> coef(p, i) + coef(q, i)]))

PNeg(p) == array([i \in 1..Len(p) |-> 0 - p[i]])

RECURSIVE conv(_, _, _, _)
conv(p, q, k, i) ==
    IF i > k THEN 0 ELSE coef(p, i) * coef(q, k - i + 1) + conv(p, q, k, i + 1)

PMul(p, q) ==
    IF PNorm(p) = <<>> \/ PNorm(q) = <<>> THEN <<>>
    ELSE PNorm(array([k \in 1..(Len(p) + Len(q) - 1) |-> conv(p, q, k, 1)]))

RECURSIVE PSign(_)
PSign(p) ==
    IF p = <<>> THEN 0
    ELSE IF Head(p) > 0 THEN 1
    ELSE IF Head(p) < 0 THEN 0 - 1
    ELSE PSign(Tail(p))

Real(n) == [num |-> PNorm(<<n>>), den |-> <<1>>]
NaN == [num |-> <<>>, den |-> <<>>]
IsNaN(a) == PNorm(a.den) = <<>>

RAdd(a, b) == [num |-> PAdd(PMul(a.num, b.den), PMul(b.num, a.den)), den |-> PMul(a.den, b.den)]
RSub(a, b) == RAdd(a, [num |-> PNeg(b.num), den |-> b.den])
RMul(a, b) == [num |-> PMul(a.num, b.num), den |-> PMul(a.den, b.den)]
\* a / b for b > 0; 0/0 is nan.
RDiv(a, b) == [num |-> PMul(a.num, b.den), den |-> PMul(a.den, b.num)]
REq(a, b) == ~IsNaN(a) /\ ~IsNaN(b) /\ PMul(a.num, b.den) = PMul(b.num, a.den)
RLess(a, b) ==
    ~IsNaN(a) /\ ~IsNaN(b) /\ PSign(PAdd(PMul(a.num, b.den), PNeg(PMul(b.num, a.den)))) < 0

\* ------------------------------------------------------------- dice, get_dice
EPS == [num |-> <<0, 1>>, den |-> <<1>>]

\* Faulty variant of astype_bool: only the value 1 counts as foreground.
astype_bool_eq1(m) == array([r \in 1..Len(m) |-> array([c \in 1..Len(m[r]) |-> m[r][c] = 1])])

\* ndarray.astype(bool)
astype_bool(m) == array([r \in 1..Len(m) |-> array([c \in 1..Len(m[r]) |-> m[r][c] # 0])])

\* a & b of two boolean arrays of one shape
and_(a, b) == array([r \in 1..Len(a) |-> array([c \in 1..Len(a[r]) |-> a[r][c] /\ b[r][c]])])

\* ndarray.sum() of a boolean array: the number of True elements.
RECURSIVE count_true(_)
count_true(flat) ==
    IF flat = <<>> THEN 0 ELSE (IF Head(flat) THEN 1 ELSE 0) + count_true(Tail(flat))

sum_(a) == count_true(flatten(a))

\* Faulty variant of dice: true | pred in place of true & pred.
dice_or(tm, pm) ==
    LET tb == astype_bool(tm)
        pb == astype_bool(pm)
        union == sum_(array([r \in 1..Len(tb) |-> array([c \in 1..Len(tb[r]) |-> tb[r][c] \/ pb[r][c]])]))
        im_sum == sum_(tb) + sum_(pb)
    IN  RDiv(Real(2 * union), RAdd(Real(im_sum), EPS))

dice(tm, pm) ==
    LET tb == astype_bool(tm)
        pb == astype_bool(pm)
        intersection == sum_(and_(tb, pb))
        im_sum == sum_(tb) + sum_(pb)
    IN  RDiv(Real(2 * intersection), RAdd(Real(im_sum), EPS))

\* Faulty variant of zip: the shorter list is padded with its last element.
zip_padded(a, b) ==
    IF a = <<>> \/ b = <<>> THEN <<>>
    ELSE array([i \in 1..(IF Len(a) < Len(b) THEN Len(b) ELSE Len(a)) |->
                  <<a[IF i <= Len(a) THEN i ELSE Len(a)], b[IF i <= Len(b) THEN i ELSE Len(b)]>>])

\* zip(a, b): the pairs up to the shorter length.
zip(a, b) == array([i \in 1..(IF Len(a) < Len(b) THEN Len(a) ELSE Len(b)) |-> <<a[i], b[i]>>])

RECURSIVE sum_left(_, _)
sum_left(xs, k) == IF k = 0 THEN Real(0) ELSE RAdd(sum_left(xs, k - 1), xs[k])

\* Faulty variant of mean: np.sum, the sum without the division.
sum_only(xs) == IF xs = <<>> THEN Real(0) ELSE sum_left(xs, Len(xs))

\* np.mean of a list of floats: the left-to-right sum over the count; nan when empty.
mean(xs) == IF xs = <<>> THEN NaN ELSE RDiv(sum_left(xs, Len(xs)), Real(Len(xs)))

\* Faulty variant of get_dice: the type check raises TypeError.
get_dice_typeerror(tr, pr) ==
    IF tr.type # pr.type THEN Raise("TypeError")
    ELSE IF tr.type = "list"
         THEN LET pairs == zip(tr.v, pr.v)
              IN  Ok(mean(array([i \in 1..Len(pairs) |-> dice(pairs[i][1], pairs[i][2])])))
    ELSE IF tr.type = "ndarray" THEN Ok(dice(tr.v, pr.v))
    ELSE Raise("TypeError")

\* A Python value is [type, v]: a list of masks, one ndarray mask, or a tuple.
get_dice(tr, pr) ==
    IF tr.type # pr.type THEN Raise("AssertionError")
    ELSE IF tr.type = "list"
         THEN LET pairs == zip(tr.v, pr.v)
              IN  Ok(mean(array([i \in 1..Len(pairs) |-> dice(pairs[i][1], pairs[i][2])])))
    ELSE IF tr.type = "ndarray" THEN Ok(dice(tr.v, pr.v))
    ELSE Raise("TypeError")

\* ------------------------------------------------- distances: square roots
\* The trajectory metrics take square roots of rational numbers, add them and
\* multiply them.  Such a float is modelled by the real number it approximates,
\* held exactly as a sum of rational multiples of square roots of distinct
\* square-free integers: terms maps each radicand n to the coefficient <<p, q>>
\* (p/q in lowest terms, q > 0, p # 0) of sqrt(n); the rationals are the
\* multiples of sqrt(1).  Square roots of distinct square-free integers are
\* linearly independent over the rationals, so two such sums are equal as real
\* numbers exactly when their terms are equal.  nan marks a value that is not
\* a finite number (nan or an infinity).
RECURSIVE gcd(_, _)
gcd(a, b) == IF b = 0 THEN a ELSE gcd(b, a % b)

abs(a) == IF a < 0 THEN 0 - a ELSE a

\* The rational p/q, q # 0, in lowest terms with a positive denominator.
Q(p, q) ==
    LET g == gcd(abs(p), abs(q))
    IN  IF q < 0 THEN <<(0 - p) \div g, (0 - q) \div g>> ELSE <<p \div g, q \div g>>

QAdd(a, b) == Q(a[1] * b[2] + b[1] * a[2], a[2] * b[2])
QMul(a, b) == Q(a[1] * b[1], a[2] * b[2])

\* The sum without its zero terms.
Prune(f) == [n \in {m \in DOMAIN f : f[m][1] # 0} |-> f[n]]

Surd(f) == [nan |-> FALSE, terms |-> Prune(f)]
NotFinite == [nan |-> TRUE, terms |-> Prune([n \in {} |-> <<0, 1>>])]
Rational(p, q) == Surd([n \in {1} |-> Q(p, q)])
Zero == Rational(0, 1)

\* The coefficient of sqrt(n) in a.
coef_of(a, n) == IF n \in DOMAIN a.terms THEN a.terms[n] ELSE <<0, 1>>

\* A float produced by np.interp, as a value of this kind.
from_real(r) ==
    IF IsNaN(r) THEN NotFinite ELSE Rational(coef(r.num, 1), coef(r.den, 1))

add(a, b) ==
    IF a.nan \/ b.nan THEN NotFinite
    ELSE Surd([n \in DOMAIN a.terms \cup DOMAIN b.terms |-> QAdd(coef_of(a, n), coef_of(b, n))])

scale(q, a) ==
    IF a.nan THEN NotFinite ELSE Surd([n \in DOMAIN a.terms |-> QMul(q, a.terms[n])])

sub(a, b) == add(a, scale(<<0 - 1, 1>>, b))

\* sqrt(m) * sqrt(n) = g * sqrt((m/g) * (n/g)) for square-free m, n and g = gcd(m, n).
radicand(m, n) == (m \div gcd(m, n)) * (n \div gcd(m, n))

RECURSIVE sum_products(_, _, _, _)
sum_products(a, b, pairs, n) ==
    IF pairs = {} THEN <<0, 1>>
    ELSE LET pr == CHOOSE x \in pairs : TRUE
             rest == sum_products(a, b, pairs \ {pr}, n)
         IN  IF radicand(pr[1], pr[2]) = n
             THEN QAdd(rest, QMul(<<gcd(pr[1], pr[2]), 1>>, QMul(a.terms[pr[1]], b.terms[pr[2]])))
             ELSE rest

mul(a, b) ==
    IF a.nan \/ b.nan THEN NotFinite
    ELSE LET pairs == (DOMAIN a.terms) \X (DOMAIN b.terms)
         IN  Surd([n \in {radicand(pr[1], pr[2]) : pr \in pairs} |-> sum_products(a, b, pairs, n)])

\* The largest s with s * s dividing n >= 1, searched upwards from k.
RECURSIVE square_part(_, _, _)
square_part(n, k, best) ==
    IF k * k > n THEN best
    ELSE square_part(n, k + 1, IF n % (k * k) = 0 THEN k ELSE best)

\* np.sqrt of a rational p/q >= 0: sqrt(p)/sqrt(q) = (sp / (sq * mq)) * sqrt(mp * mq)
\* where p = sp^2 * mp and q = sq^2 * mq.  Every argument the trajectory code
\* passes to np.sqrt is a sum of squares of rationals, or not finite.
sqrt(a) ==
    IF a.nan THEN NotFinite
    ELSE IF a.terms = Zero.terms THEN Zero
    ELSE LET p == a.terms[1][1]
             q == a.terms[1][2]
             sp == square_part(p, 1, 1)
             sq == square_part(q, 1, 1)
             mp == p \div (sp * sp)
             mq == q \div (sq * sq)
         IN  Surd([n \in {radicand(mp, mq)} |-> Q(sp * gcd(mp, mq), sq * mq)])

\* a / b of two such values, kept as the pair: a / 0 is not a finite number.
div(a, b) == [num |-> a, den |-> b]
is_nan(v) == v.num.nan \/ v.den.nan \/ v.den = Zero
div_eq(v, w) == ~is_nan(v) /\ ~is_nan(w) /\ mul(v.num, w.den) = mul(w.num, v.den)

\* ------------------------------------------------------------- get_ticks
\* np.ceil(a / b) and np.floor(a / b) of an integer a and an integer b > 0.
ceil_(a, b) == 0 - ((0 - a) \div b)
floor_(a, b) == a \div b

\* np.arange(a, b, step=step) for step > 0
arange_step(a, b, step) == array([i \in 1..(IF b > a THEN ceil_(b - a, step) ELSE 0) |-> a + (i - 1) * step])

\* Faulty variant of get_ticks: without the final shift of the first tick.
get_ticks_unshifted(mn, mx, num) ==
    LET step0 == ceil_(mx - mn, num)
        step == IF step0 <= 1 THEN 1 ELSE ceil_(step0, 5) * 5
        span == step * ceil_(mx - mn, step)
        st0 == floor_(2 * mn + (mx - mn - span), 2)
        fi0 == st0 + span
        st5 == floor_(st0, 5) * 5
        fi5 == fi0 - (st0 - st5)
        half == (step \div 5) \div 2
        st == IF step = 1 THEN st0
              ELSE IF fi5 < mx THEN st5 - half * 5 ELSE st5
        fi == IF step = 1 THEN fi0
              ELSE IF fi5 < mx
                   THEN (IF (step \div 5) % 2 # 0 THEN fi5 + (half + 1) * 5 ELSE fi5 + half * 5)
              ELSE fi5
    IN  arange_step(st, fi + 1, step)

\* get_ticks(min_values, max_values, max_num) for integer arguments,
\* min_values <= max_values and max_num >= 1.
get_ticks(mn, mx, num) ==
    LET step0 == ceil_(mx - mn, num)
        step == IF step0 <= 1 THEN 1 ELSE ceil_(step0, 5) * 5
        span == step * ceil_(mx - mn, step)
        st0 == floor_(2 * mn + (mx - mn - span), 2)
        fi0 == st0 + span
        st5 == floor_(st0, 5) * 5
        fi5 == fi0 - (st0 - st5)
        half == (step \div 5) \div 2
        st1 == IF step = 1 THEN st0
               ELSE IF fi5 < mx THEN st5 - half * 5 ELSE st5
        fi == IF step = 1 THEN fi0
              ELSE IF fi5 < mx
                   THEN (IF (step \div 5) % 2 # 0 THEN fi5 + (half + 1) * 5 ELSE fi5 + half * 5)
              ELSE fi5
        st == IF st1 + step <= mn THEN st1 + step ELSE st1
    IN  arange_step(st, fi + 1, step)

\* The step get_ticks settles on.
ticks_step(mn, mx, num) ==
    LET step0 == ceil_(mx - mn, num) IN IF step0 <= 1 THEN 1 ELSE ceil_(step0, 5) * 5

\* ---------------------------------------------------------------- inputs
\* Pairs of same-shape masks of at most MaxPix pixels, any pixel 0 or a
\* foreground value.
DiceShapes == {shp \in Shapes : shp[1] * shp[2] <= MaxPix}
AnyMasksOf(shp) == [1..shp[1] -> [1..shp[2] -> {0} \cup FgValues]]

\* The masks the lists handed to get_dice are built from.
ListMasks == {<<<<0, 0>>>>, <<<<1, 0>>>>, <<<<1, 1>>>>}
MaskLists == SeqsUpTo(ListMasks, MaxList)

NdArray(m) == [type |-> "ndarray", v |-> m]
List(ms) == [type |-> "list", v |-> ms]
Tuple(ms) == [type |-> "tuple", v |-> ms]

NoValue == [type |-> "None", v |-> <<>>]
DiceIdle == true = NoValue /\ pred = NoValue /\ score = NaN
CodecIdle == mask = <<>> /\ shape = <<0, 0>> /\ rle_mask = <<>> /\ img = <<>> /\ rle_again = <<>>

\* ---------------------------------------------------------------- inputs
\* 2d masks of a given shape with pixels 0 and one foreground value.
MasksOf(shp) ==
    UNION {[1..shp[1] -> [1..shp[2] -> {0, v}]] : v \in FgValues}

Masks == UNION {MasksOf(shp) : shp \in Shapes}

RleStrings == {join(<<" ">>, toks) : toks \in SeqsUpTo(TokenSet, MaxTokens)}

\* ---------------------------------------------------------------- extend_arr
None == [type |-> "None", v |-> 0]
PyInt(n) == [type |-> "int", v |-> n]
Array(xs) == [type |-> "ndarray", v |-> xs]

\* np.arange(a, b)
arange(a, b) == array([i \in 1..(IF b > a THEN b - a ELSE 0) |-> a + i - 1])

min_(xs) == CHOOSE x \in {xs[i] : i \in 1..Len(xs)} : \A i \in 1..Len(xs) : x <= xs[i]
max_(xs) == CHOOSE x \in {xs[i] : i \in 1..Len(xs)} : \A i \in 1..Len(xs) : x >= xs[i]

\* Faulty variant of interp1: the value of the sample to the left, no slope.
interp1_step(x, xp, fp) ==
    IF x > xp[Len(xp)] THEN {Real(fp[Len(xp)])}
    ELSE IF x < xp[1] THEN {Real(fp[1])}
    ELSE {Real(fp[CHOOSE k \in 1..Len(xp) : xp[k] <= x /\ \A l \in 1..Len(xp) : xp[l] <= x => l <= k])}

\* The values np.interp(x, xp, fp) can give at one point x, for xp sorted
\* ascending and not empty.  fp[0] left of xp, fp[-1] right of it, fp[j] at a
\* sample point, the point on the segment otherwise.  numpy wants xp strictly
\* increasing and leaves the result open where it is not: at a timestamp that
\* occurs several times the result is the value of one of its samples.
interp1(x, xp, fp) ==
    IF x > xp[Len(xp)] THEN {Real(fp[Len(xp)])}
    ELSE IF x < xp[1] THEN {Real(fp[1])}
    ELSE IF \E i \in 1..Len(xp) : xp[i] = x
         THEN {Real(fp[i]) : i \in {k \in 1..Len(xp) : xp[k] = x}}
    ELSE LET j == CHOOSE k \in 1..(Len(xp) - 1) : xp[k] < x /\ x < xp[k + 1]
             slope == RDiv(Real(fp[j + 1] - fp[j]), Real(xp[j + 1] - xp[j]))
         IN  {RAdd(RMul(slope, Real(x - xp[j])), Real(fp[j]))}

\* The arrays np.interp(xs, xp, fp) can give.
RECURSIVE interp(_, _, _)
interp(xs, xp, fp) ==
    IF xs = <<>> THEN {<<>>}
    ELSE {<<y>> \o rest : y \in interp1(Head(xs), xp, fp), rest \in interp(Tail(xs), xp, fp)}

\* The (extended_t, extended_values) pairs extend_arr can return.
extend_arr(ts, values, inter, tmin, tmax) ==
    LET lo == IF tmin.type = "None" THEN min_(ts) ELSE tmin.v
        hi == IF tmax.type = "None" THEN max_(ts) ELSE tmax.v
        ext_t == IF inter.type = "None" THEN arange(lo, hi + 1) ELSE inter.v
    IN  {<<ext_t, ys>> : ys \in interp(ext_t, ts, values)}

\* ------------------------------------------------ trajectories and metrics
\* A trajectory table (pd.DataFrame) by its columns tmsp, x and y.
Table(ts, xs, ys) == [tmsp |-> ts, x |-> xs, y |-> ys]
DataFrame(tbl) == [type |-> "DataFrame", v |-> tbl]

\* The tables extend_data(data, t_inter=inter, column_by="tmsp",
\* extended_columns=("x", "y")) can return: each column interpolated on its own.
extend_data(data, inter) ==
    {Table(cx[1], cx[2], cy[2]) :
        cx \in extend_arr(data.tmsp, data.x, inter, None, None),
        cy \in extend_arr(data.tmsp, data.y, inter, None, None)}

\* Faulty variant of synchronize_trajectories: t_inter is not handed on.
synchronize_unaligned(tt, tp) ==
    {<<tt, d>> : d \in extend_data(tp, None)}

\* The (trajectory_true, trajectory_pred) pairs synchronize_trajectories can return.
synchronize_trajectories(tt, tp) ==
    {<<tt, d>> : d \in extend_data(tp, Array(tt.tmsp))}

\* An integer coordinate, and a coordinate np.interp produced, as numbers.
number(n) == Rational(n, 1)
numbers(xs) == array([i \in 1..Len(xs) |-> from_real(xs[i])])

\* Faulty variant of hypot: the sum of the two legs.
hypot_manhattan(dx, dy) == add(sqrt(mul(dx, dx)), sqrt(mul(dy, dy)))

\* np.sqrt(dx ** 2 + dy ** 2)
hypot(dx, dy) == sqrt(add(mul(dx, dx), mul(dy, dy)))

RECURSIVE sum_first(_, _)
sum_first(xs, k) == IF k = 0 THEN Zero ELSE add(sum_first(xs, k - 1), xs[k])

\* np.cumsum
cumsum(xs) == array([i \in 1..Len(xs) |-> sum_first(xs, i)])

\* straighten_trajectories on a ground truth with integer coordinates and a
\* predicted table with float coordinates: (x, y), or the ValueError.
straighten_trajectories(tt, tp) ==
    IF Len(tt.x) # Len(tp.x) THEN Raise("ValueError")
    ELSE LET n == Len(tt.x)
             x_pred == numbers(tp.x)
             y_pred == numbers(tp.y)
             ys == array([i \in 1..n |->
                       hypot(sub(x_pred[i], number(tt.x[i])), sub(y_pred[i], number(tt.y[i])))])
             segments == array([i \in 1..(IF n = 0 THEN 0 ELSE n - 1) |->
                       hypot(number(tt.x[i] - tt.x[i + 1]), number(tt.y[i] - tt.y[i + 1]))])
         IN  Ok(<<cumsum(<<Zero>> \o segments), ys>>)

\* sklearn's mean_squared_error of two 1d arrays of numbers: ValueError when
\* the lengths differ or there is no sample.
mean_squared_error(a, b) ==
    IF Len(a) # Len(b) \/ Len(a) = 0 THEN Raise("ValueError")
    ELSE Ok(scale(<<1, Len(a)>>,
                  sum_first(array([i \in 1..Len(a) |-> mul(sub(a[i], b[i]), sub(a[i], b[i]))]), Len(a))))

\* Faulty variant of root_mse: the mean absolute error.
mean_abs(a, b) ==
    IF Len(a) # Len(b) \/ Len(a) = 0 THEN Raise("ValueError")
    ELSE Ok(scale(<<1, Len(a)>>,
                  sum_first(array([i \in 1..Len(a) |-> sqrt(mul(sub(a[i], b[i]), sub(a[i], b[i])))]), Len(a))))

\* np.sqrt(mean_squared_error(true_data, pred_data))
root_mse(a, b) ==
    LET mse == mean_squared_error(a, b)
    IN  IF mse.exc # "" THEN mse ELSE Ok(sqrt(mse.val))

\* The outcomes of rmse(true_data, pred_data) on two Python values: the result
\* or the exception, with the synchronized table where there is one.
rmse(true_data, pred_data) ==
    IF true_data.type # pred_data.type
    THEN {[exc |-> "TypeError", val |-> <<>>, pred_data |-> <<>>]}
    ELSE IF true_data.type = "DataFrame"
    THEN {LET tt == pair[1]
              tp == pair[2]
              x_pred == numbers(tp.x)
              y_pred == numbers(tp.y)
              dist == array([i \in 1..Len(tt.x) |->
                        hypot(sub(x_pred[i], number(tt.x[i])), sub(y_pred[i], number(tt.y[i])))])
              zeros == array([i \in 1..Len(y_pred) |-> Zero])
              r == root_mse(zeros, dist)
          IN  [exc |-> r.exc, val |-> r.val, pred_data |-> tp] :
          pair \in synchronize_trajectories(true_data.v, pred_data.v)}
    ELSE {LET r == root_mse(array([i \in 1..Len(true_data.v) |-> number(true_data.v[i])]),
                            array([i \in 1..Len(pred_data.v) |-> number(pred_data.v[i])]))
          IN  [exc |-> r.exc, val |-> r.val, pred_data |-> <<>>]}

\* Faulty variant of trapezoids: the rectangle rule on the left distances.
rectangles(x, y) ==
    sum_first(array([i \in 1..(IF Len(y) = 0 THEN 0 ELSE Len(y) - 1) |-> mul(y[i], sub(x[i + 1], x[i]))]),
              IF Len(y) = 0 THEN 0 ELSE Len(y) - 1)

\* ((y[1:] + y[:-1]) / 2 * (x[1:] - x[:-1])).sum()
trapezoids(x, y) ==
    sum_first(array([i \in 1..(IF Len(y) = 0 THEN 0 ELSE Len(y) - 1) |->
                  mul(scale(<<1, 2>>, add(y[i + 1], y[i])), sub(x[i + 1], x[i]))]),
              IF Len(y) = 0 THEN 0 ELSE Len(y) - 1)

\* The outcomes of mie(trajectory_true, trajectory_pred) on two tables.
mie(tt, tp) ==
    {LET st == straighten_trajectories(pair[1], pair[2])
     IN  IF st.exc # "" THEN [exc |-> st.exc, val |-> <<>>, pred_data |-> pair[2]]
         ELSE LET x == st.val[1]
                  y == st.val[2]
              IN  [exc |-> "", val |-> div(trapezoids(x, y), x[Len(x)]), pred_data |-> pair[2]] :
     pair \in synchronize_trajectories(tt, tp)}

\* ---------------------------------------------------------------- inputs
Times == 0..MaxT
\* Values of the interpolated column.
ArrValues == {0, 3}

Sorted(xs) == \A i \in 1..(Len(xs) - 1) : xs[i] <= xs[i + 1]
Strictly(xs) == \A i \in 1..(Len(xs) - 1) : xs[i] < xs[i + 1]

SortedTimes == {ts \in SeqsUpTo(Times, MaxSamples) : ts # <<>> /\ Sorted(ts)}
Targets == SeqsUpTo((0 - 1)..(MaxT + 1), MaxTargets)
OptionalTimes == {None} \cup {PyInt(n) : n \in Times}

InterpIdle ==
    /\ t = <<>> /\ arr = <<>> /\ t_inter = None /\ t_min = None /\ t_max = None
    /\ extended_t = <<>> /\ extended_values = <<>>

\* Arguments of get_ticks.
TickValues == (0 - MaxValue)..MaxValue
TickNums == 1..MaxNum

\* Timestamps and points of the trajectories.
TrajTimes == 0..MaxTime
TruePoints == {<<0, 0>>, <<1, 1>>, <<2, 2>>, <<2, 0>>}
PredPoints == {<<0, 0>>, <<2, 0>>}
\* The ground truth handed to synchronize_trajectories stays at one point: only
\* its timestamps are read.
SyncPoints == {<<1, 1>>}

\* The table with the timestamps ts and the points pts.
TableOf(ts, pts) ==
    Table(ts, array([i \in 1..Len(ts) |-> pts[i][1]]), array([i \in 1..Len(ts) |-> pts[i][2]]))

TablesOver(tss, points) == UNION {{TableOf(ts, pts) : pts \in [1..Len(ts) -> points]} : ts \in tss}

\* Trajectories: at least one sample, timestamps strictly ascending.
Trajectories(points, n) ==
    TablesOver({ts \in SeqsUpTo(TrajTimes, n) : ts # <<>> /\ Strictly(ts)}, points)

\* The same table with float coordinates.
AsFloat(tbl) ==
    Table(tbl.tmsp, array([i \in 1..Len(tbl.x) |-> Real(tbl.x[i])]),
                    array([i \in 1..Len(tbl.y) |-> Real(tbl.y[i])]))

\* 1d arrays handed to rmse.
ErrorArrays == {<<0>>, <<0, 3>>, <<3, 4>>}

TicksIdle == min_values = 0 /\ max_values = 0 /\ max_num = 0 /\ ticks = <<>>

TrajIdle ==
    /\ trajectory_true = <<>> /\ trajectory_pred = <<>> /\ synchronized = <<>>
    /\ straight_x = <<>> /\ straight_y = <<>> /\ error = <<>>

\* ------------------------------------------------ transitions: the codec
\* A caller either holds a mask (encodes it, then decodes the string) or an
\* RLE string and a shape (decodes it, then encodes the mask).
InitCodec ==
    /\ DiceIdle
    /\ InterpIdle
    /\ TrajIdle
    /\ TicksIdle
    /\ pc = "start"
    /\ exc = ""
    /\ img = <<>>
    /\ rle_again = <<>>
    /\ \/ /\ caller = "mask"
          /\ mask \in Masks
          /\ shape = shape_of(mask)
          /\ rle_mask = <<>>
       \/ /\ caller = "rle"
          /\ mask = <<>>
          /\ shape \in Shapes
          /\ rle_mask \in RleStrings

\* rle_mask = encode_rle(mask)
EncodeMask ==
    /\ caller = "mask" /\ pc = "start"
    /\ \E r \in {encode_rle(mask)} :
           /\ rle_mask' = r.val
           /\ exc' = r.exc
           /\ pc' = IF r.exc = "" THEN "encoded" ELSE "raised"
    /\ UNCHANGED <<caller, mask, shape, img, rle_again, dice_vars, interp_vars, traj_vars, ticks_vars>>

\* img = decode_rle(rle_mask, shape)
DecodeRle ==
    /\ \/ caller = "mask" /\ pc = "encoded"
       \/ caller = "rle" /\ pc = "start"
    /\ \E r \in {decode_rle(rle_mask, shape)} :
           /\ img' = r.val
           /\ exc' = r.exc
           /\ pc' = IF r.exc = "" THEN "decoded" ELSE "raised"
    /\ UNCHANGED <<caller, mask, shape, rle_mask, rle_again, dice_vars, interp_vars, traj_vars, ticks_vars>>

\* rle_again = encode_rle(img)
EncodeImg ==
    /\ caller = "rle" /\ pc = "decoded"
    /\ \E r \in {encode_rle(img)} :
           /\ rle_again' = r.val
           /\ exc' = r.exc
           /\ pc' = IF r.exc = "" THEN "reencoded" ELSE "raised"
    /\ UNCHANGED <<caller, mask, shape, rle_mask, img, dice_vars, interp_vars, traj_vars, ticks_vars>>

NextCodec == EncodeMask \/ DecodeRle \/ EncodeImg

SpecCodec == InitCodec /\ [][NextCodec]_vars

\* --------------------------------------------------- transitions: dice
InitDice ==
    /\ CodecIdle
    /\ InterpIdle
    /\ TrajIdle
    /\ TicksIdle
    /\ pc = "start"
    /\ exc = ""
    /\ score = NaN
    /\ \/ /\ caller = "dice"
          /\ \E shp \in DiceShapes :
                \E tm \in AnyMasksOf(shp), pm \in AnyMasksOf(shp) :
                    true = NdArray(tm) /\ pred = NdArray(pm)
       \/ /\ caller = "get_dice"
          /\ \/ \E ts \in MaskLists, ps \in MaskLists : true = List(ts) /\ pred = List(ps)
             \/ \E tm \in ListMasks, pm \in ListMasks : true = NdArray(tm) /\ pred = NdArray(pm)
             \/ \E ts \in MaskLists, pm \in ListMasks : true = List(ts) /\ pred = NdArray(pm)
             \/ \E tm \in ListMasks, ps \in MaskLists : true = NdArray(tm) /\ pred = List(ps)
             \/ \E tm \in ListMasks, pm \in ListMasks : true = Tuple(<<tm>>) /\ pred = Tuple(<<pm>>)

\* score = dice(true, pred)
Dice ==
    /\ caller = "dice" /\ pc = "start"
    /\ score' = dice(true.v, pred.v)
    /\ pc' = "returned"
    /\ UNCHANGED <<caller, exc, true, pred, codec_vars, interp_vars, traj_vars, ticks_vars>>

\* score = get_dice(true, pred)
GetDice ==
    /\ caller = "get_dice" /\ pc = "start"
    /\ \E r \in {get_dice(true, pred)} :
           /\ exc' = r.exc
           /\ score' = IF r.exc = "" THEN r.val ELSE score
           /\ pc' = IF r.exc = "" THEN "returned" ELSE "raised"
    /\ UNCHANGED <<caller, true, pred, codec_vars, interp_vars, traj_vars, ticks_vars>>

NextDice == Dice \/ GetDice

SpecDice == InitDice /\ [][NextDice]_vars

\* --------------------------------------------- transitions: extend_arr
InitInterp ==
    /\ CodecIdle
    /\ DiceIdle
    /\ TrajIdle
    /\ TicksIdle
    /\ caller = "extend_arr"
    /\ pc = "start"
    /\ exc = ""
    /\ extended_t = <<>>
    /\ extended_values = <<>>
    /\ t \in SortedTimes
    /\ arr \in [1..Len(t) -> ArrValues]
    /\ \/ t_inter \in {Array(xs) : xs \in Targets} /\ t_min = None /\ t_max = None
       \/ t_inter = None /\ t_min \in OptionalTimes /\ t_max \in OptionalTimes

\* extended_t, extended_values = extend_arr(t, arr, t_inter, t_min, t_max)
ExtendArr ==
    /\ caller = "extend_arr" /\ pc = "start"
    /\ \E r \in extend_arr(t, arr, t_inter, t_min, t_max) :
          /\ extended_t' = r[1]
          /\ extended_values' = r[2]
    /\ pc' = "returned"
    /\ UNCHANGED <<caller, exc, t, arr, t_inter, t_min, t_max, codec_vars, dice_vars, traj_vars, ticks_vars>>

NextInterp == ExtendArr

SpecInterp == InitInterp /\ [][NextInterp]_vars

\* ------------------------------------- transitions: aligning trajectories
\* A caller either synchronizes a predicted trajectory with a ground truth of
\* any timestamps and straightens the pair, or straightens two tables directly.
InitAlign ==
    /\ CodecIdle
    /\ DiceIdle
    /\ InterpIdle
    /\ TicksIdle
    /\ pc = "start"
    /\ exc = ""
    /\ synchronized = <<>>
    /\ straight_x = <<>>
    /\ straight_y = <<>>
    /\ error = <<>>
    /\ \/ /\ caller = "synchronize"
          /\ trajectory_true \in
                {DataFrame(d) : d \in TablesOver(SeqsUpTo(TrajTimes, MaxSync), SyncPoints)}
          /\ trajectory_pred \in
                {DataFrame(d) : d \in TablesOver({ts \in SeqsUpTo(TrajTimes, MaxSync) :
                                                     ts # <<>> /\ Sorted(ts)}, PredPoints)}
       \/ /\ caller = "straighten"
          /\ trajectory_true \in
                {DataFrame(d) : d \in TablesOver({arange(0, n) : n \in 1..(MaxTime + 1)}, TruePoints)}
          /\ trajectory_pred \in
                {DataFrame(AsFloat(d)) : d \in TablesOver({arange(0, n) : n \in 1..(MaxTime + 1)}, PredPoints)}

\* Faulty variant of Synchronize: extend_data without data.copy(), writing the
\* interpolated columns into the caller's table.
Synchronize_inplace ==
    /\ caller = "synchronize" /\ pc = "start"
    /\ \E pair \in synchronize_trajectories(trajectory_true.v, trajectory_pred.v) :
          /\ trajectory_true' = DataFrame(pair[1])
          /\ synchronized' = DataFrame(pair[2])
          /\ trajectory_pred' = DataFrame(pair[2])
    /\ pc' = "synchronized"
    /\ UNCHANGED <<caller, exc, straight_x, straight_y, error,
                   codec_vars, dice_vars, interp_vars, ticks_vars>>

\* trajectory_true, synchronized = synchronize_trajectories(trajectory_true, trajectory_pred)
Synchronize ==
    /\ caller = "synchronize" /\ pc = "start"
    /\ \E pair \in synchronize_trajectories(trajectory_true.v, trajectory_pred.v) :
          /\ trajectory_true' = DataFrame(pair[1])
          /\ synchronized' = DataFrame(pair[2])
    /\ pc' = "synchronized"
    /\ UNCHANGED <<caller, exc, trajectory_pred, straight_x, straight_y, error,
                   codec_vars, dice_vars, interp_vars, ticks_vars>>

\* straight_x, straight_y = straighten_trajectories(...) on the synchronized
\* pair, or on the caller's two tables.
Straighten ==
    /\ \/ caller = "synchronize" /\ pc = "synchronized"
       \/ caller = "straighten" /\ pc = "start"
    /\ \E r \in {straighten_trajectories(trajectory_true.v,
                    IF caller = "synchronize" THEN synchronized.v ELSE trajectory_pred.v)} :
           /\ exc' = r.exc
           /\ straight_x' = IF r.exc = "" THEN r.val[1] ELSE straight_x
           /\ straight_y' = IF r.exc = "" THEN r.val[2] ELSE straight_y
           /\ pc' = IF r.exc = "" THEN "straightened" ELSE "raised"
    /\ UNCHANGED <<caller, trajectory_true, trajectory_pred, synchronized, error,
                   codec_vars, dice_vars, interp_vars, ticks_vars>>

NextAlign == Synchronize \/ Straighten

SpecAlign == InitAlign /\ [][NextAlign]_vars

\* ------------------------------------------------ transitions: rmse, mie
\* The state of a caller of rmse or mie before the call.
MetricsStart ==
    /\ CodecIdle
    /\ DiceIdle
    /\ InterpIdle
    /\ TicksIdle
    /\ pc = "start"
    /\ exc = ""
    /\ synchronized = <<>>
    /\ straight_x = <<>>
    /\ straight_y = <<>>
    /\ error = <<>>

\* rmse is called with two trajectories, two 1d arrays, or one of each.
InitRmse ==
    /\ MetricsStart
    /\ caller = "rmse"
    /\ \/ /\ trajectory_true \in {DataFrame(d) : d \in Trajectories(TruePoints, MaxTime + 1)}
          /\ trajectory_pred \in {DataFrame(d) : d \in Trajectories(PredPoints, MaxPred)}
       \/ /\ trajectory_true \in {Array(a) : a \in ErrorArrays}
          /\ trajectory_pred \in {Array(a) : a \in ErrorArrays}
       \/ /\ trajectory_true \in {Array(a) : a \in ErrorArrays}
          /\ trajectory_pred \in {DataFrame(d) : d \in Trajectories(PredPoints, 1)}
       \/ /\ trajectory_true \in {DataFrame(d) : d \in Trajectories(PredPoints, 1)}
          /\ trajectory_pred \in {Array(a) : a \in ErrorArrays}

\* error = rmse(trajectory_true, trajectory_pred)
Rmse ==
    /\ caller = "rmse" /\ pc = "start"
    /\ \E r \in rmse(trajectory_true, trajectory_pred) :
          /\ exc' = r.exc
          /\ error' = IF r.exc = "" THEN r.val ELSE error
          /\ synchronized' = r.pred_data
          /\ pc' = IF r.exc = "" THEN "returned" ELSE "raised"
    /\ UNCHANGED <<caller, trajectory_true, trajectory_pred, straight_x, straight_y,
                   codec_vars, dice_vars, interp_vars, ticks_vars>>

NextRmse == Rmse

SpecRmse == InitRmse /\ [][NextRmse]_vars

InitMie ==
    /\ MetricsStart
    /\ caller = "mie"
    /\ trajectory_true \in {DataFrame(d) : d \in Trajectories(TruePoints, MaxTime + 1)}
    /\ trajectory_pred \in {DataFrame(d) : d \in Trajectories(PredPoints, MaxPred)}

\* error = mie(trajectory_true, trajectory_pred)
Mie ==
    /\ caller = "mie" /\ pc = "start"
    /\ \E r \in mie(trajectory_true.v, trajectory_pred.v) :
          /\ exc' = r.exc
          /\ error' = IF r.exc = "" THEN r.val ELSE error
          /\ synchronized' = r.pred_data
          /\ pc' = IF r.exc = "" THEN "returned" ELSE "raised"
    /\ UNCHANGED <<caller, trajectory_true, trajectory_pred, straight_x, straight_y,
                   codec_vars, dice_vars, interp_vars, ticks_vars>>

NextMie == Mie

SpecMie == InitMie /\ [][NextMie]_vars

\* ------------------------------------------- all the core operations
\* The callers of every core operation. The metrics and the direct callers of
\* straighten_trajectories take ground truths through the points of PredPoints,
\* synchronize_trajectories takes predicted trajectories (timestamps strictly
\* ascending), decode_rle takes strings below the longest.
OnPredPoints(data) ==
    data.type = "DataFrame" =>
        \A i \in 1..Len(data.v.x) : <<data.v.x[i], data.v.y[i]>> \in PredPoints \cup SyncPoints

InitCore ==
    \/ InitCodec /\ Len(rle_mask) < MaxTokens
    \/ InitDice
    \/ InitAlign /\ OnPredPoints(trajectory_true) /\ Strictly(trajectory_pred.v.tmsp)
    \/ InitRmse /\ OnPredPoints(trajectory_true)
    \/ InitMie /\ OnPredPoints(trajectory_true)

NextCore == NextCodec \/ NextDice \/ NextAlign \/ NextRmse \/ NextMie

SpecCore == InitCore /\ [][NextCore]_vars

\* ---------------------------------------------- transitions: get_ticks
InitTicks ==
    /\ CodecIdle
    /\ DiceIdle
    /\ InterpIdle
    /\ TrajIdle
    /\ caller = "get_ticks"
    /\ pc = "start"
    /\ exc = ""
    /\ ticks = <<>>
    /\ min_values \in TickValues
    /\ max_values \in {v \in TickValues : min_values <= v}
    /\ max_num \in TickNums

\* ticks = get_ticks(min_values, max_values, max_num)
GetTicks ==
    /\ caller = "get_ticks" /\ pc = "start"
    /\ ticks' = get_ticks(min_values, max_values, max_num)
    /\ pc' = "returned"
    /\ UNCHANGED <<caller, exc, min_values, max_values, max_num,
                   codec_vars, dice_vars, interp_vars, traj_vars>>

NextTicks == GetTicks

SpecTicks == InitTicks /\ [][NextTicks]_vars

\* ------------------------------------------------- run-length codec claims
\* The mask with every non-zero pixel forced to 255.
Force255(m) == array([r \in 1..Len(m) |-> array([c \in 1..Len(m[r]) |-> IF m[r][c] # 0 THEN 255 ELSE 0])])

\* The mask with every non-zero pixel set to v.
Recolor(m, v) == array([r \in 1..Len(m) |-> array([c \in 1..Len(m[r]) |-> IF m[r][c] # 0 THEN v ELSE 0])])

\* The positions (row, column) of the non-zero pixels of a mask.
Support(m) == {<<r, c>> \in (1..Len(m)) \X (1..Len(m[1])) : m[r][c] # 0}

\* The (start, length) pairs an RLE string of an even number of integers holds.
PairsOf(s) ==
    LET toks == split(s)
    IN  array([i \in 1..(Len(toks) \div 2) |-> <<int(toks[2 * i - 1]), int(toks[2 * i])>>])

\* The maximal runs of non-zero pixels of a flat array, as 1-indexed (start, length).
MaximalRuns(flat) ==
    {<<st, ln>> \in (1..Len(flat)) \X (1..Len(flat)) :
        /\ st + ln - 1 <= Len(flat)
        /\ \A i \in st..(st + ln - 1) : flat[i] # 0
        /\ (st = 1 \/ flat[st - 1] = 0)
        /\ (st + ln - 1 = Len(flat) \/ flat[st + ln] = 0)}

\* C1: decode_rle(encode_rle(M), shape=M.shape) never raises and has 255 exactly
\* at the non-zero pixels of the two-valued mask M and 0 everywhere else.
C1_RoundTrip ==
    caller = "mask" =>
        /\ pc # "raised"
        /\ (pc = "decoded" => img = Force255(mask) /\ shape_of(img) = shape_of(mask))

\* A mask with foreground value 1 and with background has gone through both calls.
C1_Witness ==
    /\ caller = "mask" /\ pc = "decoded"
    /\ \E r \in 1..Len(mask), c \in 1..Len(mask[1]) : mask[r][c] = 1
    /\ \E r \in 1..Len(mask), c \in 1..Len(mask[1]) : mask[r][c] = 0
    /\ Len(mask) = 2

\* The 1-indexed positions of the flattened grid that the runs of an RLE string cover.
CoveredBy(s) ==
    LET pairs == PairsOf(s)
    IN  UNION {pairs[i][1]..(pairs[i][1] + pairs[i][2] - 1) : i \in 1..Len(pairs)}

\* The 1-indexed positions of the non-zero pixels in the row-major flattening.
FlatSupport(m) == {i \in 1..Len(flatten(m)) : flatten(m)[i] # 0}

\* C2 as claimed: two-valued masks that differ in a pixel value get different
\* strings, pixel-identical masks get identical strings.
C2_Original ==
    (caller = "mask" /\ pc = "encoded") =>
        \A m2 \in MasksOf(shape) : (m2 # mask) <=> (encode_rle(m2).val # rle_mask)

\* C2 amended: two-valued masks of one shape whose sets of non-zero pixels differ
\* get different strings; masks with the same set of non-zero pixels (so also
\* pixel-identical masks) get identical strings.  The first because the set of
\* non-zero pixels can be read back from the string alone.
C2_InjectiveOnSupport ==
    (caller = "mask" /\ pc = "encoded") =>
        /\ CoveredBy(rle_mask) = FlatSupport(mask)
        /\ \A v \in FgValues : encode_rle(Recolor(mask, v)).val = rle_mask

\* A mask with foreground has been encoded, and a mask of the same support but
\* another foreground value exists.
C2_Witness ==
    /\ caller = "mask" /\ pc = "encoded"
    /\ \E m2 \in MasksOf(shape) : m2 # mask /\ Support(m2) = Support(mask)

\* C3: the string is an even number of single-space-joined decimal integers, the
\* (start, length) pairs being exactly the maximal foreground runs of the
\* row-major flattening in ascending order of start; [[0,0],[0,255]] gives "4 1"
\* and an all-zero mask gives the empty string.
C3_RunFormat ==
    (caller = "mask" /\ pc = "encoded") =>
        LET toks == split(rle_mask)
            pairs == PairsOf(rle_mask)
        IN  /\ Len(toks) % 2 = 0
            /\ \A i \in 1..Len(toks) : is_int(toks[i]) /\ str(int(toks[i])) = toks[i]
            /\ rle_mask = join(<<" ">>, toks)
            /\ {pairs[i] : i \in 1..Len(pairs)} = MaximalRuns(flatten(mask))
            /\ Len(pairs) = Cardinality(MaximalRuns(flatten(mask)))
            /\ \A i \in 1..Len(pairs) : pairs[i][1] >= 1 /\ pairs[i][2] >= 1
            /\ \A i \in 1..(Len(pairs) - 1) : pairs[i + 1][1] > pairs[i][1] + pairs[i][2]
            /\ (mask = <<<<0, 0>>, <<0, 255>>>> => rle_mask = <<"4", " ", "1">>)
            /\ (Support(mask) = {} => rle_mask = <<>>)

\* A mask with two separate foreground runs has been encoded.
C3_Witness ==
    /\ caller = "mask" /\ pc = "encoded"
    /\ Cardinality(MaximalRuns(flatten(mask))) = 2

\* C4: decode_rle raises for every string with an odd number of tokens and for
\* every string holding a token that is no integer.
C4_MalformedRaises ==
    (caller = "rle" /\ pc # "start") =>
        LET toks == split(rle_mask)
        IN  (Len(toks) % 2 = 1 \/ \E i \in 1..Len(toks) : ~is_int(toks[i])) => pc = "raised"

\* Well-formed as the claim has it: an even number of integers, starts >= 1 in
\* ascending order, lengths >= 1, every run inside the flattened grid.
WellFormedRle(s, shp) ==
    LET toks == split(s)
        pairs == PairsOf(s)
    IN  /\ Len(toks) % 2 = 0
        /\ \A i \in 1..Len(toks) : is_int(toks[i])
        /\ \A i \in 1..Len(pairs) :
              pairs[i][1] >= 1 /\ pairs[i][2] >= 1 /\ pairs[i][1] + pairs[i][2] - 1 <= shp[1] * shp[2]
        /\ \A i \in 1..(Len(pairs) - 1) : pairs[i][1] < pairs[i + 1][1]

\* Consecutive runs are separated by at least one background pixel.
SeparatedRuns(s) ==
    LET pairs == PairsOf(s)
    IN  \A i \in 1..(Len(pairs) - 1) : pairs[i + 1][1] > pairs[i][1] + pairs[i][2]

\* C5 as claimed: re-encoding the decoded mask of a well-formed string gives the
\* same (start, length) pairs.
C5_Original ==
    (caller = "rle" /\ pc # "start" /\ WellFormedRle(rle_mask, shape)) =>
        /\ pc # "raised"
        /\ (pc = "reencoded" => PairsOf(rle_again) = PairsOf(rle_mask))

\* C5 amended: the same, for well-formed strings whose consecutive runs are
\* separated by at least one background pixel (start[i+1] > start[i] + length[i]).
C5_DecodeEncode ==
    (caller = "rle" /\ pc # "start" /\ WellFormedRle(rle_mask, shape) /\ SeparatedRuns(rle_mask)) =>
        /\ pc # "raised"
        /\ (pc = "reencoded" => PairsOf(rle_again) = PairsOf(rle_mask))

\* A well-formed string of two separated runs has been decoded and re-encoded.
C5_Witness ==
    /\ caller = "rle" /\ pc = "reencoded"
    /\ WellFormedRle(rle_mask, shape) /\ SeparatedRuns(rle_mask)
    /\ Len(PairsOf(rle_mask)) = 2

\* ------------------------------------------------------------- dice claims
\* xs with the elements at i and j exchanged.
Swap(xs, i, j) == array([k \in 1..Len(xs) |-> IF k = i THEN xs[j] ELSE IF k = j THEN xs[i] ELSE xs[k]])

\* The sum of the dice scores of the pairs indexed by S, in no particular order.
RECURSIVE DiceSum(_, _, _)
DiceSum(ts, ps, S) ==
    IF S = {} THEN Real(0)
    ELSE LET i == CHOOSE k \in S : \A l \in S : k >= l
         IN  RAdd(dice(ts[i], ps[i]), DiceSum(ts, ps, S \ {i}))

C7_RangeAndValueFree ==
    (caller = "dice" /\ pc = "returned") =>
        /\ ~IsNaN(score)
        /\ ~RLess(score, Real(0))
        /\ ~RLess(Real(1), score)
        /\ (Support(true.v) = {} /\ Support(pred.v) = {} => REq(score, Real(0)))
        /\ \A v \in FgValues, w \in FgValues :
              REq(dice(Recolor(true.v, v), Recolor(pred.v, w)), score)

\* dice has been applied to masks that overlap in part and mark the foreground
\* with different values.
C7_Witness ==
    /\ caller = "dice" /\ pc = "returned"
    /\ \E q \in Support(true.v) \cap Support(pred.v) : true.v[q[1]][q[2]] # pred.v[q[1]][q[2]]
    /\ Support(true.v) # Support(pred.v)
    /\ \E q \in Support(true.v), q2 \in Support(true.v) : true.v[q[1]][q[2]] # true.v[q2[1]][q2[2]]

\* C8: for two lists of n >= 1 masks get_dice is the arithmetic mean of the n
\* pairwise dice scores, unchanged when two pairs exchange places; for two
\* single arrays it is dice(true, pred).
C8_MeanDice ==
    (caller = "get_dice" /\ pc # "start" /\ true.type = pred.type) =>
        /\ (true.type = "list" /\ Len(true.v) = Len(pred.v) /\ Len(true.v) >= 1 =>
              /\ pc = "returned"
              /\ REq(RMul(score, Real(Len(true.v))), DiceSum(true.v, pred.v, 1..Len(true.v)))
              /\ \A i \in 1..Len(true.v) : \A j \in (i + 1)..Len(true.v) :
                    LET r == get_dice(List(Swap(true.v, i, j)), List(Swap(pred.v, i, j)))
                    IN  r.exc = "" /\ REq(r.val, score))
        /\ (true.type = "ndarray" => pc = "returned" /\ REq(score, dice(true.v, pred.v)))

\* get_dice has been applied to lists of three pairs with three different scores.
C8_Witness ==
    /\ caller = "get_dice" /\ pc = "returned"
    /\ true.type = "list" /\ Len(true.v) = 3 /\ Len(pred.v) = 3
    /\ \A i \in 1..3, j \in 1..3 :
          i # j => ~REq(dice(true.v[i], pred.v[i]), dice(true.v[j], pred.v[j]))

\* C9 as claimed: arguments of different types make get_dice raise TypeError.
C9_Original ==
    (caller = "get_dice" /\ pc # "start" /\ true.type # pred.type) =>
        pc = "raised" /\ exc = "TypeError"

\* C9 amended: arguments of different types make get_dice raise AssertionError
\* ("Types of true and pred should be the same."), and no score is computed.
C9_MismatchAsserts ==
    (caller = "get_dice" /\ pc # "start" /\ true.type # pred.type) =>
        pc = "raised" /\ exc = "AssertionError" /\ IsNaN(score)

\* get_dice has been called with a list and a single array.
C9_Witness ==
    /\ caller = "get_dice" /\ pc = "raised"
    /\ true.type = "list" /\ pred.type = "ndarray" /\ Len(true.v) >= 1

\* ------------------------------------------------------- extend_arr claims
\* y is the piecewise-linear interpolant of (ts, values) at x, clamped to the
\* first and last value outside [min(ts), max(ts)].
PiecewiseLinearAt(x, y, ts, values) ==
    /\ (x < ts[1] => REq(y, Real(values[1])))
    /\ (x > ts[Len(ts)] => REq(y, Real(values[Len(ts)])))
    /\ \A i \in 1..Len(ts) : x = ts[i] => REq(y, Real(values[i]))
    /\ \A i \in 1..(Len(ts) - 1) :
          (ts[i] < x /\ x < ts[i + 1]) =>
              REq(RMul(y, Real(ts[i + 1] - ts[i])),
                  Real(values[i] * (ts[i + 1] - x) + values[i + 1] * (x - ts[i])))

InterpolatesTargets ==
    /\ extended_t = t_inter.v
    /\ Len(extended_values) = Len(extended_t)
    /\ \A k \in 1..Len(extended_t) : PiecewiseLinearAt(extended_t[k], extended_values[k], t, arr)
    /\ (t = <<0, 3>> /\ arr = <<0, 3>> =>
          \A k \in 1..Len(extended_t) :
              extended_t[k] \in {1, 2} => REq(extended_values[k], Real(extended_t[k])))

\* C10 as claimed: for t sorted ascending extend_arr(t, arr, t_inter) is the
\* piecewise-linear interpolant at every target: arr[i] at a target equal to
\* t[i], arr[0] below min(t), the last value above max(t); [0,3] with values 0, 3
\* gives 1 and 2 at the targets 1 and 2.
C10_Original ==
    (caller = "extend_arr" /\ pc = "returned" /\ t_inter.type = "ndarray" /\ Sorted(t)) =>
        InterpolatesTargets

\* C10 amended: the same for t strictly ascending (no timestamp twice).
C10_Interpolates ==
    (caller = "extend_arr" /\ pc = "returned" /\ t_inter.type = "ndarray" /\ Strictly(t)) =>
        InterpolatesTargets

\* extend_arr has interpolated [0,3] with values 0, 3 at the targets 1 and 2.
C10_Witness ==
    /\ caller = "extend_arr" /\ pc = "returned"
    /\ t = <<0, 3>> /\ arr = <<0, 3>> /\ t_inter = Array(<<1, 2>>)

\* C19: get_dice on two lists of different lengths raises nothing, pairs the
\* masks by position, ignores the surplus masks of the longer list and returns
\* the mean dice of the first min(len(true), len(pred)) pairs (nan when the
\* shorter list is empty).
C19_SurplusIgnored ==
    (caller = "get_dice" /\ pc # "start" /\ true.type = "list" /\ pred.type = "list"
        /\ Len(true.v) # Len(pred.v)) =>
        LET n == IF Len(true.v) < Len(pred.v) THEN Len(true.v) ELSE Len(pred.v)
        IN  /\ pc = "returned"
            /\ exc = ""
            /\ (n = 0 => IsNaN(score))
            /\ (n > 0 => REq(RMul(score, Real(n)), DiceSum(true.v, pred.v, 1..n)))
            /\ LET r == get_dice(List(SubSeq(true.v, 1, n)), List(SubSeq(pred.v, 1, n)))
               IN  r.exc = "" /\ (n > 0 => REq(r.val, score))

\* get_dice has been applied to one mask against three, the surplus masks
\* scoring differently from the first pair.
C19_Witness ==
    /\ caller = "get_dice" /\ pc = "returned"
    /\ true.type = "list" /\ pred.type = "list"
    /\ Len(true.v) = 1 /\ Len(pred.v) = 3
    /\ ~REq(dice(true.v[1], pred.v[1]), dice(true.v[1], pred.v[3]))

\* An even number of integer tokens, every start >= 1 and every length >= 0.
InRangeFree(s) ==
    LET toks == split(s)
        pairs == PairsOf(s)
    IN  /\ Len(toks) % 2 = 0
        /\ \A i \in 1..Len(toks) : is_int(toks[i])
        /\ \A i \in 1..Len(pairs) : pairs[i][1] >= 1 /\ pairs[i][2] >= 0

\* C18: decode_rle never writes outside the grid: for every string of (start,
\* length) pairs with starts >= 1 and lengths >= 0, runs beyond shape[0]*shape[1]
\* included, it raises nothing and returns a mask of the requested shape that
\* is 255 exactly at the flat positions of the runs that lie in the grid and 0
\* elsewhere.
C18_WritesStayInGrid ==
    (caller = "rle" /\ pc # "start" /\ InRangeFree(rle_mask)) =>
        /\ pc # "raised"
        /\ shape_of(img) = shape
        /\ \A r \in 1..shape[1] : Len(img[r]) = shape[2]
        /\ \A i \in 1..(shape[1] * shape[2]) :
              flatten(img)[i] = IF i \in CoveredBy(rle_mask) THEN 255 ELSE 0

\* A decoded string with a run that begins inside the grid and ends beyond it.
C18_Witness ==
    /\ caller = "rle" /\ pc = "decoded" /\ InRangeFree(rle_mask)
    /\ \E i \in 1..Len(PairsOf(rle_mask)) :
          /\ PairsOf(rle_mask)[i][1] <= shape[1] * shape[2]
          /\ PairsOf(rle_mask)[i][1] + PairsOf(rle_mask)[i][2] - 1 > shape[1] * shape[2]
    /\ \E i \in 1..Len(PairsOf(rle_mask)) :
          PairsOf(rle_mask)[i][1] > shape[1] * shape[2] /\ PairsOf(rle_mask)[i][2] > 0

\* ------------------------------------------------------ trajectory claims
\* a is a finite number >= 0: every coefficient of its square roots is positive.
NonNegative(a) == ~a.nan /\ \A n \in DOMAIN a.terms : a.terms[n][1] > 0

\* d is the Euclidean length of the vector (dx, dy).
IsLength(d, dx, dy) == NonNegative(d) /\ mul(d, d) = add(mul(dx, dx), mul(dy, dy))

\* The predicted table straighten_trajectories was applied to.
Straightened == IF caller = "synchronize" THEN synchronized.v ELSE trajectory_pred.v

\* C11: for every ground truth and every predicted trajectory with at least one
\* sample, whatever their sample counts and timestamps, synchronize_trajectories
\* returns the ground truth unchanged and a predicted table with as many
\* samples as the ground truth and the ground truth's timestamp column, and
\* straighten_trajectories on that pair does not raise the shape-mismatch error.
C11_SynchronizedShape ==
    [][caller = "synchronize" =>
          /\ trajectory_true' = trajectory_true
          /\ pc' # "raised"
          /\ exc' = ""
          /\ synchronized'.v.tmsp = trajectory_true.v.tmsp
          /\ Len(synchronized'.v.x) = Len(trajectory_true.v.x)
          /\ Len(synchronized'.v.y) = Len(trajectory_true.v.y)]_vars

\* A pair with different sample counts and timestamps the predicted trajectory
\* does not have has been synchronized and straightened.
C11_Witness ==
    /\ caller = "synchronize" /\ pc = "straightened"
    /\ Len(trajectory_true.v.tmsp) = 2 /\ Len(trajectory_pred.v.tmsp) = 1
    /\ trajectory_true.v.tmsp[1] > trajectory_true.v.tmsp[2]
    /\ \A i \in 1..2 : trajectory_true.v.tmsp[i] # trajectory_pred.v.tmsp[1]

\* C12: for two tables of the same sample count n >= 1 straighten_trajectories
\* returns x and y of length n with x[0] = 0, x[i] - x[i-1] the Euclidean
\* distance between the ground-truth samples i-1 and i (so x does not
\* decrease and ends at the length of the path), and y[i] the Euclidean
\* distance between the ground-truth and the predicted sample i.
C12_ArcLengthAndDistance ==
    ((caller = "straighten" \/ (caller = "synchronize" /\ pc # "synchronized"))
        /\ pc # "start"
        /\ Len(trajectory_true.v.x) = Len(Straightened.x) /\ Len(trajectory_true.v.x) >= 1) =>
        LET tt == trajectory_true.v
            tp == Straightened
            n == Len(tt.x)
        IN  /\ pc = "straightened"
            /\ Len(straight_x) = n /\ Len(straight_y) = n
            /\ straight_x[1] = Zero
            /\ \A i \in 2..n :
                  IsLength(sub(straight_x[i], straight_x[i - 1]),
                           number(tt.x[i] - tt.x[i - 1]), number(tt.y[i] - tt.y[i - 1]))
            /\ \A i \in 1..n :
                  IsLength(straight_y[i], sub(from_real(tp.x[i]), number(tt.x[i])),
                                          sub(from_real(tp.y[i]), number(tt.y[i])))

\* Two tables of three samples have been straightened: the path has a diagonal
\* and an axis-parallel segment, and a distance is not rational.
C12_Witness ==
    /\ caller = "straighten" /\ pc = "straightened"
    /\ Len(straight_x) = 3
    /\ DOMAIN straight_x[3].terms = {1, 2}
    /\ \E i \in 1..3 : DOMAIN straight_y[i].terms = {2}

\* A ground truth of one sample, or of samples that all lie at one point.
Degenerate(tt) ==
    \A i \in 1..Len(tt.x) : tt.x[i] = tt.x[1] /\ tt.y[i] = tt.y[1]

\* The sum of the squared distances between the samples of tt and of tp.
RECURSIVE SquaredDistances(_, _, _)
SquaredDistances(tt, tp, k) ==
    IF k = 0 THEN Zero
    ELSE LET dx == sub(from_real(tp.x[k]), number(tt.x[k]))
             dy == sub(from_real(tp.y[k]), number(tt.y[k]))
         IN  add(SquaredDistances(tt, tp, k - 1), add(mul(dx, dx), mul(dy, dy)))

\* C13: rmse on two trajectory tables is the square root of the mean, over the
\* ground-truth samples, of the squared Euclidean distance between the
\* ground-truth point and the predicted point interpolated at its timestamp;
\* it is not negative and is 0.0 when the predicted trajectory is the ground
\* truth.
C13_RootMeanSquare ==
    (caller = "rmse" /\ pc # "start"
        /\ trajectory_true.type = "DataFrame" /\ trajectory_pred.type = "DataFrame") =>
        LET tt == trajectory_true.v
            tp == trajectory_pred.v
            n == Len(tt.x)
        IN  /\ pc = "returned"
            /\ Len(synchronized.x) = n
            /\ \A i \in 1..n :
                  /\ PiecewiseLinearAt(tt.tmsp[i], synchronized.x[i], tp.tmsp, tp.x)
                  /\ PiecewiseLinearAt(tt.tmsp[i], synchronized.y[i], tp.tmsp, tp.y)
            /\ NonNegative(error)
            /\ scale(<<n, 1>>, mul(error, error)) = SquaredDistances(tt, synchronized, n)
            /\ (tp = tt => error = Zero)

\* rmse has been applied to a ground truth of three samples and a predicted
\* trajectory of two, interpolated between its samples, with an error that is
\* not rational.
C13_Witness ==
    /\ caller = "rmse" /\ pc = "returned" /\ trajectory_true.type = "DataFrame"
    /\ Len(trajectory_true.v.x) = 3 /\ Len(trajectory_pred.v.x) = 2
    /\ trajectory_pred.v.tmsp = <<0, 2>> /\ trajectory_pred.v.x[1] # trajectory_pred.v.x[2]
    /\ 1 \notin DOMAIN error.terms /\ error # Zero
    /\ ~Degenerate(trajectory_true.v)

\* C14: on a degenerate ground truth (one sample, or all samples at one point)
\* mie and rmse fail with an error instead of returning a value; mie never
\* returns nan or an infinite value.
C14_DegenerateRaises ==
    (caller \in {"rmse", "mie"} /\ pc # "start"
        /\ trajectory_true.type = "DataFrame" /\ trajectory_pred.type = "DataFrame") =>
        /\ (Degenerate(trajectory_true.v) => pc = "raised")
        /\ (caller = "mie" /\ pc = "returned" => ~is_nan(error))

\* Sample k of tt lies on the straight segment between its neighbours, at the
\* proportionally interpolated timestamp.
Inserted(tt, k) ==
    /\ 1 < k /\ k < Len(tt.x)
    /\ (tt.x[k] - tt.x[k - 1]) * (tt.tmsp[k + 1] - tt.tmsp[k - 1])
          = (tt.x[k + 1] - tt.x[k - 1]) * (tt.tmsp[k] - tt.tmsp[k - 1])
    /\ (tt.y[k] - tt.y[k - 1]) * (tt.tmsp[k + 1] - tt.tmsp[k - 1])
          = (tt.y[k + 1] - tt.y[k - 1]) * (tt.tmsp[k] - tt.tmsp[k - 1])

Remove(xs, k) == SubSeq(xs, 1, k - 1) \o SubSeq(xs, k + 1, Len(xs))

\* The table without its sample k.
Without(tt, k) == Table(Remove(tt.tmsp, k), Remove(tt.x, k), Remove(tt.y, k))

\* The distance at sample k is the interpolation, linear in arc length, of the
\* distances at the two neighbouring samples.
LinearDistance(x, y, k) ==
    mul(y[k], sub(x[k + 1], x[k - 1]))
        = add(mul(y[k - 1], sub(x[k + 1], x[k])), mul(y[k + 1], sub(x[k], x[k - 1])))

\* C15 as claimed: mie does not change when the ground truth is sampled more
\* densely: with a sample inserted on a straight segment of a ground truth of
\* non-zero length, at the interpolated timestamp, mie is what it is without it.
C15_Original ==
    (caller = "mie" /\ pc = "returned" /\ ~is_nan(error)) =>
        \A k \in 1..Len(trajectory_true.v.x) :
            Inserted(trajectory_true.v, k) =>
                \A r \in mie(Without(trajectory_true.v, k), trajectory_pred.v) :
                    div_eq(r.val, error)

\* C15 amended: mie with the inserted sample equals mie without it exactly
\* when the distance to the predicted trajectory at the inserted sample is the
\* interpolation, linear in arc length, of the distances at its two neighbours.
C15_DensifyLinear ==
    (caller = "mie" /\ pc = "returned" /\ ~is_nan(error)) =>
        LET st == straighten_trajectories(trajectory_true.v, synchronized).val
        IN  \A k \in 1..Len(trajectory_true.v.x) :
                Inserted(trajectory_true.v, k) =>
                    \A r \in mie(Without(trajectory_true.v, k), trajectory_pred.v) :
                        div_eq(r.val, error) <=> LinearDistance(st[1], st[2], k)

\* mie has been applied to a ground truth with an inserted sample and a
\* predicted trajectory at a growing distance from it, linear in arc length,
\* and returned a value that is not 0.
C15_Witness ==
    /\ caller = "mie" /\ pc = "returned" /\ ~is_nan(error)
    /\ Inserted(trajectory_true.v, 2)
    /\ LET st == straighten_trajectories(trajectory_true.v, synchronized).val
       IN  /\ LinearDistance(st[1], st[2], 2)
           /\ st[2][1] # st[2][2] /\ st[2][2] # st[2][3]
    /\ error.num # Zero

C17_AtMostMaxNum ==
    (caller = "get_ticks" /\ pc = "returned") => Len(ticks) <= max_num

\* C20: for all integers min_values <= max_values and max_num >= 1 the ticks
\* are a non-empty, strictly increasing, evenly spaced integer sequence whose
\* spacing is 1 or a multiple of 5, whose first tick is <= min_values and
\* greater than min_values minus the spacing, and whose last tick is
\* >= max_values.
C20_TicksCoverRange ==
    (caller = "get_ticks" /\ pc = "returned") =>
        LET step == ticks_step(min_values, max_values, max_num)
        IN  /\ ticks # <<>>
            /\ step = 1 \/ step % 5 = 0
            /\ \A i \in 1..(Len(ticks) - 1) : ticks[i + 1] = ticks[i] + step
            /\ \A i \in 1..Len(ticks) : ticks[i] \in Int
            /\ ticks[1] <= min_values
            /\ ticks[1] > min_values - step
            /\ ticks[Len(ticks)] >= max_values

\* A range wider than five units per tick: the spacing is 10, and more than
\* one tick is returned.
C20_Witness ==
    /\ caller = "get_ticks" /\ pc = "returned"
    /\ ticks_step(min_values, max_values, max_num) = 10
    /\ Len(ticks) >= 2
    /\ ticks[1] < min_values

====
